---- MODULE Spec2Model ----
(***************************************************************************)
(* OctoBar renderer: notification refresh, reconciliation, filtering,      *)
(* grouping and mark-as-read, modelled from src/renderer/App.tsx,          *)
(* services/githubService (GitHubService), services/notificationService   *)
(* and hooks/useBackgroundRefresh.                                         *)
(*                                                                         *)
(* Timestamps (ISO strings compared through new Date(s).getTime()) are     *)
(* modelled as integer ticks 1..MaxTime; 0 stands for null / absent.       *)
(***************************************************************************)
EXTENDS Integers, Sequences, FiniteSets, TLC

(***************************************************************************)
(* Bounds                                                                  *)
(***************************************************************************)
MaxId == 2
MaxTime == 2
MaxOverlap == 2
MaxMarking == 1
MaxLen == 2
MaxInbox == 301
MaxPending == 2
StackLimit == 12

Ids == 1..MaxId
Times == 1..MaxTime

(***************************************************************************)
(* Records of the remote feed                                              *)
(***************************************************************************)
NoOwner == [id |-> "", login |-> ""]
NoRepo == [id |-> "", full_name |-> "", owner |-> NoOwner]

RepoA == [id |-> "10", full_name |-> "a/x", owner |-> [id |-> "1", login |-> "a"]]
RepoB == [id |-> "20", full_name |-> "b/y", owner |-> [id |-> "2", login |-> "b"]]
RepoC == [id |-> "30", full_name |-> "c/z", owner |-> NoOwner]

\* threads 1 and 2 live in a/x, every other thread in b/y
RepoOf(id) == IF id <= 2 THEN RepoA ELSE RepoB
TypeOf(id) == IF id % 2 = 1 THEN "Issue" ELSE "PullRequest"
ReasonOf(id) == IF id = 1 THEN "mention" ELSE "subscribed"

Thread(id, ts) ==
  [id |-> id, repository |-> RepoOf(id), subject_type |-> TypeOf(id),
   reason |-> ReasonOf(id), updated_at |-> ts]

\* String(x).trim() on the repository-id strings the model uses
Trim(s) == IF s = " 10" THEN "10" ELSE s

NoCriteria == [orgs |-> {}, repos |-> {}, types |-> {}, reasons |-> {}]

(***************************************************************************)
(* Sequence helpers                                                        *)
(***************************************************************************)
Range(s) == {s[i] : i \in DOMAIN s}

IdsOf(s) == {s[i].id : i \in DOMAIN s}

Prefix(s, n) == SubSeq(s, 1, IF n < Len(s) THEN n ELSE Len(s))

RECURSIVE SeqMax(_)
SeqMax(s) == IF s = <<>> THEN 0
             ELSE LET m == SeqMax(Tail(s))
                  IN IF Head(s).updated_at > m THEN Head(s).updated_at ELSE m

\* the elements of a finite set of numbers, smallest first
RECURSIVE Ascending(_)
Ascending(S) ==
  IF S = {} THEN <<>>
  ELSE LET m == CHOOSE x \in S : \A y \in S : x <= y
       IN <<m>> \o Ascending(S \ {m})

\* all orderings of a finite set, as sequences without repetition
Perms(S) == {p \in [1..Cardinality(S) -> S] : \A i, j \in DOMAIN p : i # j => p[i] # p[j]}

(***************************************************************************)
(* GitHubService.filterNotifications                                       *)
(***************************************************************************)
IsRepoSelected(repoId, filterRepos) ==
  \/ repoId \in filterRepos
  \/ \E s \in filterRepos : Trim(s) = Trim(repoId)

IsOwnerSelected(owner, filterOrgs) ==
  \/ owner.id # "" /\ owner.id \in filterOrgs
  \/ owner.login # "" /\ owner.login \in filterOrgs

\* variant: an owner selection admits a repository that is not selected
MatchesRepoFilterEither(repo, filterOrgs, filterRepos) ==
  IF filterOrgs = {} /\ filterRepos = {} THEN TRUE
  ELSE IsRepoSelected(repo.id, filterRepos) \/ IsOwnerSelected(repo.owner, filterOrgs)

MatchesRepoFilter(repo, filterOrgs, filterRepos) ==
  IF filterOrgs = {} /\ filterRepos = {} THEN TRUE
  ELSE IF filterRepos # {} THEN IsRepoSelected(repo.id, filterRepos)
  ELSE IsOwnerSelected(repo.owner, filterOrgs)

\* variant: a record is kept when any one of the three checks passes
FilterMatchesAny(n, c) ==
  /\ n.repository # NoRepo
  /\ \/ MatchesRepoFilter(n.repository, c.orgs, c.repos)
     \/ (c.types = {} \/ n.subject_type \in c.types)
     \/ (c.reasons = {} \/ n.reason \in c.reasons)

FilterMatches(n, c) ==
  /\ n.repository # NoRepo
  /\ MatchesRepoFilter(n.repository, c.orgs, c.repos)
  /\ (c.types = {} \/ n.subject_type \in c.types)
  /\ (c.reasons = {} \/ n.reason \in c.reasons)

NoFiltersApplied(c) ==
  c.orgs = {} /\ c.repos = {} /\ c.types = {} /\ c.reasons = {}

\* variant: no early return for empty criteria
filterNotificationsNoFastPath(notifications, c) ==
  SelectSeq(notifications, LAMBDA n : FilterMatches(n, c))

filterNotifications(notifications, c) ==
  IF NoFiltersApplied(c) THEN notifications
  ELSE SelectSeq(notifications, LAMBDA n : FilterMatches(n, c))

(***************************************************************************)
(* App.transformGitHubNotifications                                        *)
(***************************************************************************)
Item(n) == [id |-> n.id, repository |-> n.repository.full_name,
            updatedAt |-> n.updated_at, unread |-> TRUE]

\* Array.prototype.sort with (a, b) => b.updatedAt - a.updatedAt: stable,
\* descending, ties keep their order of insertion
RECURSIVE InsertDesc(_, _)
InsertDesc(x, s) ==
  IF s = <<>> THEN <<x>>
  ELSE IF Head(s).updatedAt >= x.updatedAt THEN <<Head(s)>> \o InsertDesc(x, Tail(s))
  ELSE <<x>> \o s

RECURSIVE SortDesc(_)
SortDesc(s) ==
  IF s = <<>> THEN <<>>
  ELSE InsertDesc(s[Len(s)], SortDesc(SubSeq(s, 1, Len(s) - 1)))

\* keys of `grouped` in order of first insertion (Object.entries order)
RECURSIVE RepoOrder(_)
RepoOrder(s) ==
  IF s = <<>> THEN <<>>
  ELSE LET rest == RepoOrder(SubSeq(s, 1, Len(s) - 1))
           k == s[Len(s)].repository.full_name
       IN IF k \in Range(rest) THEN rest ELSE Append(rest, k)

NotMarked(raw, marked) == SelectSeq(raw, LAMBDA n : n.id \notin marked)

GroupOf(filtered, k) ==
  [repository |-> k,
   notifications |->
     SortDesc([i \in 1..Len(SelectSeq(filtered, LAMBDA n : n.repository.full_name = k)) |->
                 Item(SelectSeq(filtered, LAMBDA n : n.repository.full_name = k)[i])])]

GroupNotifications(filtered) ==
  LET order == RepoOrder(filtered)
  IN [g \in 1..Len(order) |-> GroupOf(filtered, order[g])]

transformGitHubNotifications(rawNotifications, marked) ==
  GroupNotifications(NotMarked(rawNotifications, marked))

RECURSIVE CountItems(_)
CountItems(groups) ==
  IF groups = <<>> THEN 0
  ELSE Len(Head(groups).notifications) + CountItems(Tail(groups))

DisplayIds(groups) ==
  UNION {IdsOf(groups[g].notifications) : g \in DOMAIN groups}

RECURSIVE FlatIds(_)
FlatIds(groups) ==
  IF groups = <<>> THEN <<>>
  ELSE [i \in 1..Len(Head(groups).notifications) |-> Head(groups).notifications[i].id]
       \o FlatIds(Tail(groups))

(***************************************************************************)
(* State                                                                   *)
(***************************************************************************)
VARIABLES
  feed,                      \* upstream inbox: thread id -> updated_at, 0 = not in the inbox
  notifications,             \* App state: display groups
  unreadCount,               \* App state
  markedAsReadIds,           \* App state: locally marked-read ids
  previousNotificationCount, \* App state
  previousIdsRef,            \* App ref: ids seen by the last reconcile
  lastSeenUpdatedAtRef,      \* App ref: newest updated_at seen, 0 = null
  selected,                  \* App state: selectedOrgs/Repos/SubjectTypes/Reasons
  loading,                   \* App state
  error,                     \* App state: error !== null
  loads,                     \* loadNotifications calls in flight, with their closures
  marking,                   \* handleMarkAsRead calls awaiting the PATCH
  bulk,                      \* handleMarkAllAsRead call in flight
  markedOk,                  \* history: ids of successful single marks since the last manual refresh
  ev,                        \* history: what the last step did
  pure,                      \* inputs and outputs of the pure-function checks
  scen                       \* script of the three-refresh scenario

appVars == <<feed, notifications, unreadCount, markedAsReadIds, previousNotificationCount,
             previousIdsRef, lastSeenUpdatedAtRef, selected, loading, error, loads,
             marking, bulk, markedOk, ev>>
vars == <<appVars, pure, scen>>

NoAlert == [kind |-> "none", n |-> 0, items |-> <<>>]

EvNone == [op |-> "none", kind |-> "", manual |-> FALSE, fin |-> FALSE, ids |-> {}, cls |-> NoAlert,
           first |-> FALSE, both |-> FALSE, fresh |-> {}, stale |-> FALSE, hidden |-> {},
           id |-> 0,
           ok |-> {}, failed |-> {}, before |-> {}, n |-> 0, total |-> 0, inflight |-> 0,
           puts |-> 0, shown |-> {}, status |-> 0]

\* how a fetch can fail: fetch rejects (0, network error) or the response is
\* not ok, with one of these statuses
FetchFailures == {0, 401, 403}

\* ok, failed: ids whose PATCH resolved or threw; puts: PUT /notifications calls
\* issued; shown: ids on display when the handler was invoked
BulkIdle == [pc |-> "idle", ids |-> <<>>, i |-> 0, markedCount |-> 0, ok |-> {}, failed |-> {},
             puts |-> 0, shown |-> {}]

PureIdle == [op |-> "idle", in |-> <<>>, in2 |-> <<>>, crit |-> NoCriteria,
             out |-> <<>>, out2 |-> <<>>]

ScenIdle == [stage |-> 0, done |-> 0, T1 |-> 0, T2 |-> 0, T3 |-> 0]

\* the filter selections the Filter Settings dialog can save in this model
RepoAOnly == [orgs |-> {"2"}, repos |-> {"10"}, types |-> {}, reasons |-> {}]
FilterChoices == {NoCriteria, RepoAOnly}

\* a selection by subject type: of threads 1 and 2 it admits thread 1 only
IssuesOnly == [orgs |-> {}, repos |-> {}, types |-> {"Issue"}, reasons |-> {}]
TrackChoices == {NoCriteria, RepoAOnly, IssuesOnly}

\* the state once setup is complete and the stored filter selection `crit` is loaded
AppInit(crit) ==
  /\ feed = [i \in Ids |-> 0]
  /\ notifications = <<>>
  /\ unreadCount = 0
  /\ markedAsReadIds = {}
  /\ previousNotificationCount = 0
  /\ previousIdsRef = {}
  /\ lastSeenUpdatedAtRef = 0
  /\ selected = crit
  /\ loading = FALSE
  /\ error = FALSE
  /\ loads = <<>>
  /\ marking = {}
  /\ bulk = BulkIdle
  /\ markedOk = {}
  /\ ev = EvNone

Init == AppInit(NoCriteria) /\ pure = PureIdle /\ scen = ScenIdle

RemoveAt(s, i) == SubSeq(s, 1, i - 1) \o SubSeq(s, i + 1, Len(s))

(***************************************************************************)
(* The remote inbox (environment)                                          *)
(***************************************************************************)
FeedAdd(id, ts) ==
  /\ feed[id] = 0
  /\ feed' = [feed EXCEPT ![id] = ts]
  /\ ev' = [EvNone EXCEPT !.op = "feed"]
  /\ UNCHANGED <<notifications, unreadCount, markedAsReadIds, previousNotificationCount,
                 previousIdsRef, lastSeenUpdatedAtRef, selected, loading, error, loads,
                 marking, bulk, markedOk>>

FeedUpdate(id, ts) ==
  /\ feed[id] # 0
  /\ ts > feed[id]
  /\ feed' = [feed EXCEPT ![id] = ts]
  /\ ev' = [EvNone EXCEPT !.op = "feed"]
  /\ UNCHANGED <<notifications, unreadCount, markedAsReadIds, previousNotificationCount,
                 previousIdsRef, lastSeenUpdatedAtRef, selected, loading, error, loads,
                 marking, bulk, markedOk>>

FeedRemove(id) ==
  /\ feed[id] # 0
  /\ feed' = [feed EXCEPT ![id] = 0]
  /\ ev' = [EvNone EXCEPT !.op = "feed"]
  /\ UNCHANGED <<notifications, unreadCount, markedAsReadIds, previousNotificationCount,
                 previousIdsRef, lastSeenUpdatedAtRef, selected, loading, error, loads,
                 marking, bulk, markedOk>>

\* the inbox as one response body, in the order `order` lists its threads
FeedList(order) == [i \in DOMAIN order |-> Thread(order[i], feed[order[i]])]

FeedOrders == Perms({i \in Ids : feed[i] # 0})

(***************************************************************************)
(* App.loadNotifications                                                   *)
(***************************************************************************)
NewLoad(kind, crit) ==
  [pc |-> "fetch", manual |-> (kind = "manual"), crit |-> crit, marked |-> markedAsReadIds,
   prevCount |-> previousNotificationCount, ids |-> {}, latest |-> 0, count |-> 0,
   hidden |-> markedOk]

\* lines 153-208: setLoading(true), setError(null), then await getNotifications
StartLoad(kind, crit, limit) ==
  /\ Len(loads) < limit
  /\ loads' = Append(loads, NewLoad(kind, crit))
  /\ loading' = TRUE
  /\ error' = FALSE
  /\ ev' = [EvNone EXCEPT !.op = "start", !.kind = kind, !.inflight = Len(loads)]

\* variant: every refresh clears the local tracking, not only the manual one
BackgroundTickClearing(limit) ==
  /\ StartLoad("bg", selected, limit)
  /\ markedAsReadIds' = {}
  /\ UNCHANGED <<feed, notifications, unreadCount, previousNotificationCount,
                 previousIdsRef, lastSeenUpdatedAtRef, selected, marking, bulk, markedOk>>

\* setInterval callback of useBackgroundRefresh -> onRefresh
BackgroundTick(limit) ==
  /\ StartLoad("bg", selected, limit)
  /\ UNCHANGED <<feed, notifications, unreadCount, markedAsReadIds, previousNotificationCount,
                 previousIdsRef, lastSeenUpdatedAtRef, selected, marking, bulk, markedOk>>

\* handleRefresh: the load started here still closes over the old markedAsReadIds
handleRefresh(limit) ==
  /\ StartLoad("manual", selected, limit)
  /\ markedAsReadIds' = {}
  /\ markedOk' = {}
  /\ UNCHANGED <<feed, notifications, unreadCount, previousNotificationCount,
                 previousIdsRef, lastSeenUpdatedAtRef, selected, marking, bulk>>

\* handleSaveFilterSettings, the save succeeding
handleSaveFilterSettings(crit, limit) ==
  /\ StartLoad("save", crit, limit)
  /\ selected' = crit
  /\ UNCHANGED <<feed, notifications, unreadCount, markedAsReadIds, previousNotificationCount,
                 previousIdsRef, lastSeenUpdatedAtRef, marking, bulk, markedOk>>

\* the Try Again button of the error display
TryAgain(limit) ==
  /\ ~loading
  /\ error
  /\ StartLoad("retry", selected, limit)
  /\ UNCHANGED <<feed, notifications, unreadCount, markedAsReadIds, previousNotificationCount,
                 previousIdsRef, lastSeenUpdatedAtRef, selected, marking, bulk, markedOk>>

\* variant: a failed fetch forgets what the last reconcile saw
LoadFetchFailReset(i) ==
  /\ i \in DOMAIN loads
  /\ loads[i].pc = "fetch"
  /\ loads' = RemoveAt(loads, i)
  /\ error' = TRUE
  /\ loading' = FALSE
  /\ previousIdsRef' = {}
  /\ lastSeenUpdatedAtRef' = 0
  /\ \E status \in FetchFailures :
       ev' = [EvNone EXCEPT !.op = "fetchFail", !.manual = loads[i].manual, !.status = status]
  /\ UNCHANGED <<feed, notifications, unreadCount, markedAsReadIds, previousNotificationCount,
                 selected, marking, bulk, markedOk>>

\* getNotifications throws (the first request or any page is not ok, or fetch
\* rejects): nothing of the try block after line 208 runs; catch sets the
\* error, finally clears loading
LoadFetchFail(i) ==
  /\ i \in DOMAIN loads
  /\ loads[i].pc = "fetch"
  /\ loads' = RemoveAt(loads, i)
  /\ error' = TRUE
  /\ loading' = FALSE
  /\ \E status \in FetchFailures :
       ev' = [EvNone EXCEPT !.op = "fetchFail", !.manual = loads[i].manual, !.status = status]
  /\ UNCHANGED <<feed, notifications, unreadCount, markedAsReadIds, previousNotificationCount,
                 previousIdsRef, lastSeenUpdatedAtRef, selected, marking, bulk, markedOk>>

\* variant: the id diff runs even when no id is known yet
ClassifyNoFirstLoadGuard(raw, count, prevIds, lastSeen, prevCount) ==
  LET newIds == IdsOf(raw) \ prevIds
      newest == SelectSeq(raw, LAMBDA n : n.id \in newIds)
  IN IF newIds # {}
     THEN [kind |-> "new", n |-> Cardinality(newIds),
           items |-> [k \in DOMAIN newest |-> newest[k].id]]
     ELSE NoAlert

\* variant: the timestamp diff runs before the id diff
ClassifyUpdatedFirst(raw, count, prevIds, lastSeen, prevCount) ==
  LET newIds == IF prevIds # {} THEN IdsOf(raw) \ prevIds ELSE {}
      newest == SelectSeq(raw, LAMBDA n : n.id \in newIds)
      updatedItems == IF lastSeen # 0
                      THEN SelectSeq(raw, LAMBDA n : n.updated_at > lastSeen)
                      ELSE <<>>
  IN IF updatedItems # <<>>
     THEN [kind |-> "updated", n |-> Len(updatedItems),
           items |-> [k \in DOMAIN updatedItems |-> updatedItems[k].id]]
     ELSE IF newIds # {}
     THEN [kind |-> "new", n |-> Cardinality(newIds),
           items |-> [k \in DOMAIN newest |-> newest[k].id]]
     ELSE NoAlert

\* variant: the timestamp diff uses >= instead of >
ClassifyInclusive(raw, count, prevIds, lastSeen, prevCount) ==
  LET newIds == IF prevIds # {} THEN IdsOf(raw) \ prevIds ELSE {}
      newest == SelectSeq(raw, LAMBDA n : n.id \in newIds)
      updatedItems == IF lastSeen # 0
                      THEN SelectSeq(raw, LAMBDA n : n.updated_at >= lastSeen)
                      ELSE <<>>
  IN IF newIds # {}
     THEN [kind |-> "new", n |-> Cardinality(newIds),
           items |-> [k \in DOMAIN newest |-> newest[k].id]]
     ELSE IF updatedItems # <<>>
     THEN [kind |-> "updated", n |-> Len(updatedItems),
           items |-> [k \in DOMAIN updatedItems |-> updatedItems[k].id]]
     ELSE NoAlert

\* lines 229-268: which alert, if any, this cycle raises
Classify(raw, count, prevIds, lastSeen, prevCount) ==
  LET newIds == IF prevIds # {} THEN IdsOf(raw) \ prevIds ELSE {}
      newest == SelectSeq(raw, LAMBDA n : n.id \in newIds)
      updatedItems == IF lastSeen # 0
                      THEN SelectSeq(raw, LAMBDA n : n.updated_at > lastSeen)
                      ELSE <<>>
  IN IF newIds # {}
     THEN [kind |-> "new", n |-> Cardinality(newIds),
           items |-> [k \in DOMAIN newest |-> newest[k].id]]
     ELSE IF updatedItems # <<>>
     THEN [kind |-> "updated", n |-> Len(updatedItems),
           items |-> [k \in DOMAIN updatedItems |-> updatedItems[k].id]]
     ELSE IF prevCount > 0 /\ count > prevCount
     THEN [kind |-> "count", n |-> count - prevCount,
           items |-> [k \in DOMAIN Prefix(raw, count - prevCount) |-> raw[k].id]]
     ELSE NoAlert

\* variant: the seen ids accumulate instead of being replaced
FinishLoadKeepStale(i, count, ids, latest) ==
  /\ previousNotificationCount' = count
  /\ previousIdsRef' = previousIdsRef \cup ids
  /\ lastSeenUpdatedAtRef' = latest
  /\ loading' = FALSE
  /\ loads' = RemoveAt(loads, i)

\* lines 270-279 and the finally block
FinishLoad(i, count, ids, latest) ==
  /\ previousNotificationCount' = count
  /\ previousIdsRef' = ids
  /\ lastSeenUpdatedAtRef' = latest
  /\ loading' = FALSE
  /\ loads' = RemoveAt(loads, i)

\* lines 208-268: the fetch resolves; display, count and the alert decision.
\* getNotifications is taken as one read of the inbox followed by
\* filterNotifications with the criteria the call was given.
\* A cycle that raises no alert runs through to the end without another await.
LoadFetchDone(i, order) ==
  /\ i \in DOMAIN loads
  /\ loads[i].pc = "fetch"
  /\ order \in FeedOrders
  /\ LET l == loads[i]
         raw == filterNotifications(FeedList(order), l.crit)
         grouped == transformGitHubNotifications(raw, l.marked)
         count == CountItems(grouped)
         cls == Classify(raw, count, previousIdsRef, lastSeenUpdatedAtRef, l.prevCount)
         e == [EvNone EXCEPT !.op = "classified", !.manual = l.manual, !.ids = IdsOf(raw),
                             !.cls = cls, !.fresh = IdsOf(raw) \ previousIdsRef,
                             !.stale = (previousIdsRef \ IdsOf(raw) # {}),
                             !.hidden = l.hidden \cap markedOk,
                             !.first = (previousIdsRef = {} /\ lastSeenUpdatedAtRef = 0
                                        /\ l.prevCount = 0),
                             !.both = ((IdsOf(raw) \ previousIdsRef # {})
                                       /\ \E k \in DOMAIN raw :
                                            /\ raw[k].id \in previousIdsRef
                                            /\ raw[k].updated_at > lastSeenUpdatedAtRef)]
     IN /\ notifications' = grouped
        /\ unreadCount' = count
        /\ IF cls.kind = "none"
           THEN /\ FinishLoad(i, count, IdsOf(raw), SeqMax(raw))
                /\ ev' = [e EXCEPT !.fin = TRUE]
           ELSE /\ loads' = [loads EXCEPT ![i] = [l EXCEPT !.pc = "alert", !.ids = IdsOf(raw),
                                                          !.latest = SeqMax(raw), !.count = count]]
                /\ ev' = e
                /\ UNCHANGED <<previousNotificationCount, previousIdsRef,
                               lastSeenUpdatedAtRef, loading>>
  /\ UNCHANGED <<feed, markedAsReadIds, selected, error, marking, bulk, markedOk>>

\* notifyNewNotifications resolves (it swallows its own failures)
LoadAlertDone(i) ==
  /\ i \in DOMAIN loads
  /\ loads[i].pc = "alert"
  /\ FinishLoad(i, loads[i].count, loads[i].ids, loads[i].latest)
  /\ ev' = [EvNone EXCEPT !.op = "done", !.manual = loads[i].manual, !.fin = TRUE,
                          !.ids = loads[i].ids,
                          !.stale = (previousIdsRef \ loads[i].ids # {})]
  /\ UNCHANGED <<feed, notifications, unreadCount, markedAsReadIds, selected, error,
                 marking, bulk, markedOk>>

(***************************************************************************)
(* App.handleMarkAsRead                                                    *)
(***************************************************************************)
MarkItemRead(groups, id) ==
  [g \in DOMAIN groups |->
     [groups[g] EXCEPT !.notifications =
        [k \in DOMAIN groups[g].notifications |->
           IF groups[g].notifications[k].id = id
           THEN [groups[g].notifications[k] EXCEPT !.unread = FALSE]
           ELSE groups[g].notifications[k]]]]

HasUnread(group) == \E k \in DOMAIN group.notifications : group.notifications[k].unread

\* the setNotifications updater of handleMarkAsRead (lines 373-387)
AfterMarkAsRead(groups, id) ==
  SelectSeq(MarkItemRead(groups, id), LAMBDA g : HasUnread(g))

Max0(n) == IF n < 0 THEN 0 ELSE n

\* a displayed item's mark button (or its title, which opens the browser first)
MarkAsReadStart(id) ==
  /\ ~loading
  /\ ~error
  /\ id \in DisplayIds(notifications)
  /\ id \notin marking
  /\ Cardinality(marking) < MaxMarking
  /\ marking' = marking \cup {id}
  /\ ev' = [EvNone EXCEPT !.op = "markStart", !.id = id]
  /\ UNCHANGED <<feed, notifications, unreadCount, markedAsReadIds, previousNotificationCount,
                 previousIdsRef, lastSeenUpdatedAtRef, selected, loading, error, loads,
                 bulk, markedOk>>

\* markNotificationAsRead resolved: lines 372-390
MarkAsReadOk(id) ==
  /\ id \in marking
  /\ marking' = marking \ {id}
  /\ notifications' = AfterMarkAsRead(notifications, id)
  /\ unreadCount' = Max0(unreadCount - 1)
  /\ markedOk' = markedOk \cup {id}
  /\ ev' = [EvNone EXCEPT !.op = "markOk", !.id = id, !.before = markedAsReadIds]
  /\ UNCHANGED <<feed, markedAsReadIds, previousNotificationCount, previousIdsRef,
                 lastSeenUpdatedAtRef, selected, loading, error, loads, bulk>>

\* variant: the local update runs whether or not the PATCH went through
MarkAsReadFailOptimistic(id) ==
  /\ id \in marking
  /\ marking' = marking \ {id}
  /\ notifications' = AfterMarkAsRead(notifications, id)
  /\ unreadCount' = Max0(unreadCount - 1)
  /\ ev' = [EvNone EXCEPT !.op = "markFail", !.id = id]
  /\ UNCHANGED <<feed, markedAsReadIds, previousNotificationCount, previousIdsRef,
                 lastSeenUpdatedAtRef, selected, loading, error, loads, bulk, markedOk>>

\* markNotificationAsRead threw: the catch only logs
MarkAsReadFail(id) ==
  /\ id \in marking
  /\ marking' = marking \ {id}
  /\ ev' = [EvNone EXCEPT !.op = "markFail", !.id = id]
  /\ UNCHANGED <<feed, notifications, unreadCount, markedAsReadIds, previousNotificationCount,
                 previousIdsRef, lastSeenUpdatedAtRef, selected, loading, error, loads,
                 bulk, markedOk>>

(***************************************************************************)
(* App.handleMarkAllAsRead                                                 *)
(***************************************************************************)
BulkEv(b) ==
  [EvNone EXCEPT !.op = "bulkDone", !.ok = b.ok, !.failed = b.failed,
                 !.before = markedAsReadIds, !.n = b.markedCount, !.total = Len(b.ids),
                 !.ids = Range(b.ids), !.puts = b.puts, !.shown = b.shown]

\* variant: the filtered branch walks the whole inbox instead of the display
handleMarkAllAsReadInbox ==
  /\ bulk.pc = "idle"
  /\ unreadCount > 0
  /\ IF ~NoFiltersApplied(selected)
     THEN LET b == [BulkIdle EXCEPT !.pc = "loop", !.ids = Ascending({i \in Ids : feed[i] # 0}),
                                    !.i = 1, !.shown = DisplayIds(notifications)]
          IN IF b.ids = <<>>
             THEN bulk' = BulkIdle /\ ev' = BulkEv(b)
             ELSE bulk' = b /\ ev' = [EvNone EXCEPT !.op = "bulkStart"]
     ELSE /\ bulk' = [BulkIdle EXCEPT !.pc = "all", !.puts = 1,
                                      !.shown = DisplayIds(notifications)]
          /\ ev' = [EvNone EXCEPT !.op = "allStart"]
  /\ UNCHANGED <<feed, notifications, unreadCount, markedAsReadIds, previousNotificationCount,
                 previousIdsRef, lastSeenUpdatedAtRef, selected, loading, error, loads,
                 marking, markedOk>>

\* the Mark-all button (shown while unreadCount > 0); lines 396-418 and 480-483
handleMarkAllAsRead ==
  /\ bulk.pc = "idle"
  /\ unreadCount > 0
  /\ IF ~NoFiltersApplied(selected)
     THEN LET b == [BulkIdle EXCEPT !.pc = "loop", !.ids = FlatIds(notifications), !.i = 1,
                                    !.shown = DisplayIds(notifications)]
          IN IF b.ids = <<>>
             THEN bulk' = BulkIdle /\ ev' = BulkEv(b)
             ELSE bulk' = b /\ ev' = [EvNone EXCEPT !.op = "bulkStart"]
     ELSE /\ bulk' = [BulkIdle EXCEPT !.pc = "all", !.puts = 1,
                                      !.shown = DisplayIds(notifications)]
          /\ ev' = [EvNone EXCEPT !.op = "allStart"]
  /\ UNCHANGED <<feed, notifications, unreadCount, markedAsReadIds, previousNotificationCount,
                 previousIdsRef, lastSeenUpdatedAtRef, selected, loading, error, loads,
                 marking, markedOk>>

\* one iteration of the loop at lines 424-440: the PATCH of ids[i] resolves or
\* throws; after the last one, lines 442-457 run up to the await of notify
BulkStep(success) ==
  /\ bulk.pc = "loop"
  /\ LET id == bulk.ids[bulk.i]
         b == IF success
              THEN [bulk EXCEPT !.markedCount = @ + 1, !.ok = @ \cup {id}, !.i = @ + 1]
              ELSE [bulk EXCEPT !.failed = @ \cup {id}, !.i = @ + 1]
     IN IF b.i <= Len(b.ids)
        THEN bulk' = b /\ ev' = [EvNone EXCEPT !.op = "bulkStep", !.id = id]
        ELSE IF b.markedCount > 0
        THEN bulk' = [b EXCEPT !.pc = "notify"] /\ ev' = [EvNone EXCEPT !.op = "bulkStep", !.id = id]
        ELSE bulk' = BulkIdle /\ ev' = BulkEv(b)
  /\ UNCHANGED <<feed, notifications, unreadCount, markedAsReadIds, previousNotificationCount,
                 previousIdsRef, lastSeenUpdatedAtRef, selected, loading, error, loads,
                 marking, markedOk>>

\* lines 459-476: the ids added are those of the display the handler closed over
BulkLocalIds(b) == Range(b.ids)

\* notify resolved: the local update
BulkNotifyDone ==
  /\ bulk.pc = "notify"
  /\ markedAsReadIds' = markedAsReadIds \cup BulkLocalIds(bulk)
  /\ notifications' = <<>>
  /\ unreadCount' = 0
  /\ bulk' = BulkIdle
  /\ ev' = BulkEv(bulk)
  /\ UNCHANGED <<feed, previousNotificationCount, previousIdsRef, lastSeenUpdatedAtRef,
                 selected, loading, error, loads, marking, markedOk>>

\* markAllNotificationsAsRead resolved: lines 485-487
MarkAllOk ==
  /\ bulk.pc = "all"
  /\ notifications' = <<>>
  /\ unreadCount' = 0
  /\ bulk' = BulkIdle
  /\ ev' = [EvNone EXCEPT !.op = "allOk", !.puts = bulk.puts, !.total = unreadCount,
                          !.shown = bulk.shown]
  /\ UNCHANGED <<feed, markedAsReadIds, previousNotificationCount, previousIdsRef,
                 lastSeenUpdatedAtRef, selected, loading, error, loads, marking, markedOk>>

\* variant: the display is cleared whether or not the PUT went through
MarkAllFailClearing ==
  /\ bulk.pc = "all"
  /\ notifications' = <<>>
  /\ unreadCount' = 0
  /\ bulk' = BulkIdle
  /\ ev' = [EvNone EXCEPT !.op = "allFail", !.puts = bulk.puts, !.total = unreadCount,
                          !.shown = bulk.shown]
  /\ UNCHANGED <<feed, markedAsReadIds, previousNotificationCount, previousIdsRef,
                 lastSeenUpdatedAtRef, selected, loading, error, loads, marking, markedOk>>

\* markAllNotificationsAsRead threw: the outer catch only logs
MarkAllFail ==
  /\ bulk.pc = "all"
  /\ bulk' = BulkIdle
  /\ ev' = [EvNone EXCEPT !.op = "allFail", !.puts = bulk.puts, !.total = unreadCount,
                          !.shown = bulk.shown]
  /\ UNCHANGED <<feed, notifications, unreadCount, markedAsReadIds, previousNotificationCount,
                 previousIdsRef, lastSeenUpdatedAtRef, selected, loading, error, loads,
                 marking, markedOk>>

(***************************************************************************)
(* The application                                                         *)
(***************************************************************************)
FeedStep ==
  \/ \E id \in Ids, ts \in Times : FeedAdd(id, ts)
  \/ \E id \in Ids, ts \in Times : FeedUpdate(id, ts)
  \/ \E id \in Ids : FeedRemove(id)

RefreshStep(limit) ==
  \/ BackgroundTick(limit)
  \/ handleRefresh(limit)
  \/ \E crit \in FilterChoices : handleSaveFilterSettings(crit, limit)
  \/ TryAgain(limit)
  \/ \E i \in 1..limit : LoadFetchFail(i)
  \/ \E i \in 1..limit : \E order \in FeedOrders : LoadFetchDone(i, order)
  \/ \E i \in 1..limit : LoadAlertDone(i)

\* refresh triggers and the steps of the refresh cycles they start, one cycle
\* after another: a trigger arrives when no cycle is in flight
Next == (FeedStep \/ RefreshStep(1)) /\ UNCHANGED <<pure, scen>>

Spec == Init /\ [][Next]_vars

\* the same, with up to MaxOverlap refresh cycles in flight at once
NextOverlap == (FeedStep \/ RefreshStep(MaxOverlap)) /\ UNCHANGED <<pure, scen>>

SpecOverlap == Init /\ [][NextOverlap]_vars

\* refreshes together with the single mark-as-read handler
NextMark ==
  /\ \/ FeedStep
     \/ BackgroundTick(1)
     \/ handleRefresh(1)
     \/ \E order \in FeedOrders : LoadFetchDone(1, order)
     \/ LoadAlertDone(1)
     \/ \E id \in Ids : MarkAsReadStart(id)
     \/ \E id \in Ids : MarkAsReadOk(id)
     \/ \E id \in Ids : MarkAsReadFail(id)
  /\ UNCHANGED <<pure, scen>>

SpecMark == Init /\ [][NextMark]_vars

\* refreshes together with the mark-all handler
NextBulk ==
  /\ \/ FeedStep
     \/ BackgroundTick(1)
     \/ handleRefresh(1)
     \/ \E order \in FeedOrders : LoadFetchDone(1, order)
     \/ LoadAlertDone(1)
     \/ handleMarkAllAsRead
     \/ \E success \in BOOLEAN : BulkStep(success)
     \/ BulkNotifyDone
     \/ MarkAllOk
     \/ MarkAllFail
  /\ UNCHANGED <<pure, scen>>

InitBulk == (\E crit \in FilterChoices : AppInit(crit)) /\ pure = PureIdle /\ scen = ScenIdle

SpecBulk == InitBulk /\ [][NextBulk]_vars

(***************************************************************************)
(* Refreshes, single marks and mark-all together. Which ids are displayed  *)
(* and tracked does not depend on timestamps or on the order of a response *)
(* body, so here threads only enter and leave the inbox, all with          *)
(* updated_at 1, and a response lists them by ascending id.                *)
(***************************************************************************)
FeedStepIds ==
  \/ \E id \in Ids : FeedAdd(id, 1)
  \/ \E id \in Ids : FeedRemove(id)

InboxOrder == Ascending({i \in Ids : feed[i] # 0})

\* no refresh cycle, single mark or mark-all is awaiting anything
Quiet == loads = <<>> /\ marking = {} /\ bulk.pc = "idle"

\* one handler at a time: a timer tick or a gesture arrives when Quiet
TrackStep ==
  \/ FeedStepIds
  \/ Quiet /\ BackgroundTick(1)
  \/ Quiet /\ handleRefresh(1)
  \/ Quiet /\ \E crit \in TrackChoices : handleSaveFilterSettings(crit, 1)
  \/ Quiet /\ TryAgain(1)
  \/ LoadFetchFail(1)
  \/ LoadFetchDone(1, InboxOrder)
  \/ LoadAlertDone(1)
  \/ Quiet /\ \E id \in Ids : MarkAsReadStart(id)
  \/ \E id \in Ids : MarkAsReadOk(id)
  \/ \E id \in Ids : MarkAsReadFail(id)
  \/ Quiet /\ handleMarkAllAsRead
  \/ \E success \in BOOLEAN : BulkStep(success)
  \/ BulkNotifyDone
  \/ MarkAllOk
  \/ MarkAllFail

NextTrack == TrackStep /\ UNCHANGED <<pure, scen>>

SpecTrack == Init /\ [][NextTrack]_vars

(***************************************************************************)
(* The same steps, with scen remembering what the inbox held when the last *)
(* two successful fetches resolved (feedNow: the latest, feedThen: the one *)
(* before it).                                                             *)
(***************************************************************************)
FeedSeen ==
  scen' = IF ev'.op = "classified"
          THEN [feedNow |-> feed', feedThen |-> scen.feedNow]
          ELSE scen

InitAlerts == AppInit(NoCriteria) /\ pure = PureIdle /\ scen = [feedNow |-> feed, feedThen |-> feed]

NextAlerts == TrackStep /\ FeedSeen /\ UNCHANGED pure

SpecAlerts == InitAlerts /\ [][NextAlerts]_vars

(***************************************************************************)
(* The three-refresh scenario: [1@T1], then [1@T1, 2@T2], then             *)
(* [1@T3, 2@T2], each fetched by one background refresh                    *)
(***************************************************************************)
ScenTimes == 1..(MaxTime + 2)

ScenFeedAt(stage) ==
  [i \in Ids |-> IF i = 1 THEN (IF stage = 3 THEN scen.T3 ELSE scen.T1)
                 ELSE IF i = 2 /\ stage >= 2 THEN scen.T2
                 ELSE 0]

ScenFeed ==
  /\ scen.stage < 3
  /\ scen.done = scen.stage
  /\ feed' = ScenFeedAt(scen.stage + 1)
  /\ scen' = [scen EXCEPT !.stage = @ + 1]
  /\ ev' = [EvNone EXCEPT !.op = "feed"]
  /\ UNCHANGED <<notifications, unreadCount, markedAsReadIds, previousNotificationCount,
                 previousIdsRef, lastSeenUpdatedAtRef, selected, loading, error, loads,
                 marking, bulk, markedOk>>

ScenCount == scen' = [scen EXCEPT !.done = IF ev'.fin THEN @ + 1 ELSE @]

ScenTick == scen.done < scen.stage /\ BackgroundTick(1) /\ ScenCount

ScenFetchDone == (\E order \in FeedOrders : LoadFetchDone(1, order)) /\ ScenCount

ScenAlertDone == LoadAlertDone(1) /\ ScenCount

NextScenario ==
  /\ \/ ScenFeed
     \/ ScenTick
     \/ ScenFetchDone
     \/ ScenAlertDone
  /\ UNCHANGED pure

InitScenario ==
  /\ AppInit(NoCriteria)
  /\ pure = PureIdle
  /\ \E a, b, c \in ScenTimes :
       /\ b > a
       /\ c > a
       /\ scen = [stage |-> 0, done |-> 0, T1 |-> a, T2 |-> b, T3 |-> c]

SpecScenario == InitScenario /\ [][NextScenario]_vars

(***************************************************************************)
(* A session of refresh cycles, one after another, that keeps count (up to *)
(* two) of the cycles that ran to completion                               *)
(***************************************************************************)
SessionCount ==
  scen' = [scen EXCEPT !.done = IF ev'.fin /\ @ < 2 THEN @ + 1 ELSE @]

NextSession == (FeedStep \/ RefreshStep(1)) /\ SessionCount /\ UNCHANGED pure

SpecSession == Init /\ [][NextSession]_vars

\* cycles that had run to completion before the step that led to this state
CompletedBefore == scen.done - (IF ev.fin THEN 1 ELSE 0)

(***************************************************************************)
(* filterNotifications on arbitrary record lists and criteria              *)
(***************************************************************************)
Shapes ==
  [repository : {NoRepo, RepoA, RepoB, RepoC}, subject_type : {"Issue", "PullRequest"},
   reason : {"mention", "subscribed"}]

ShapeLists == UNION {[1..n -> Shapes] : n \in 0..MaxLen}

\* the k-th record of a response gets id k
RecordList(sl) ==
  [k \in DOMAIN sl |-> [id |-> k, repository |-> sl[k].repository,
                        subject_type |-> sl[k].subject_type, reason |-> sl[k].reason,
                        updated_at |-> 1]]

CriteriaChoices ==
  [orgs : {{}, {"1"}, {"2"}, {"b"}}, repos : {{}, {"10"}, {" 10"}, {"20"}},
   types : {{}, {"Issue"}}, reasons : {{}, {"mention"}}]

InitFilter ==
  /\ AppInit(NoCriteria)
  /\ scen = ScenIdle
  /\ \E sl \in ShapeLists, c \in CriteriaChoices :
       pure = [PureIdle EXCEPT !.op = "filterIn", !.in = RecordList(sl), !.crit = c]

ApplyFilter ==
  /\ pure.op = "filterIn"
  /\ pure' = [pure EXCEPT !.op = "filterOut", !.out = filterNotifications(pure.in, pure.crit)]
  /\ UNCHANGED <<appVars, scen>>

SpecFilter == InitFilter /\ [][ApplyFilter]_vars

(***************************************************************************)
(* transformGitHubNotifications on two orderings of the same records       *)
(***************************************************************************)
GroupShapes == [repository : {RepoA, RepoB}, updated_at : Times]

GroupRecord(id, sh) ==
  [id |-> id, repository |-> sh.repository, subject_type |-> "Issue",
   reason |-> "mention", updated_at |-> sh.updated_at]

InitGroup ==
  /\ AppInit(NoCriteria)
  /\ scen = ScenIdle
  /\ \E n \in 0..MaxLen : \E sh \in [1..n -> GroupShapes] : \E p, q \in Perms(1..n) :
       pure = [PureIdle EXCEPT !.op = "groupIn",
                               !.in = [k \in 1..n |-> GroupRecord(p[k], sh[p[k]])],
                               !.in2 = [k \in 1..n |-> GroupRecord(q[k], sh[q[k]])]]

ApplyGroup ==
  /\ pure.op = "groupIn"
  /\ pure' = [pure EXCEPT !.op = "groupOut",
                          !.out = transformGitHubNotifications(pure.in, {}),
                          !.out2 = transformGitHubNotifications(pure.in2, {})]
  /\ UNCHANGED <<appVars, scen>>

SpecGroup == InitGroup /\ [][ApplyGroup]_vars

(***************************************************************************)
(* NotificationService.notify: playNotificationSound, then                 *)
(* showDesktopNotification, for every setting and every state of the audio *)
(* context, the Electron bridge and the browser Notification API           *)
(***************************************************************************)
NotifyInputs ==
  [enableSound : BOOLEAN, enableDesktopNotifications : BOOLEAN,
   audio : {"none", "noSound", "ready"},        \* no AudioContext / no buffer / both there
   suspended : BOOLEAN,                         \* audioContext.state = 'suspended'
   soundFails : {"no", "resume", "start"},      \* which call of the try block throws
   electronAPI : BOOLEAN,                       \* window.electronAPI?.showNotification
   electronFails : BOOLEAN,                     \* the IPC call rejects
   supported : BOOLEAN,                         \* 'Notification' in window
   permission : {"granted", "default", "denied"},
   requestResult : {"granted", "denied"},       \* Notification.requestPermission()
   ctorFails : BOOLEAN]                         \* new Notification(...) throws

\* lines 76-94; every failure is caught inside
playNotificationSound(x) ==
  IF ~x.enableSound \/ x.audio # "ready" THEN "skipped"
  ELSE IF x.suspended /\ x.soundFails = "resume" THEN "failed"
  ELSE IF x.soundFails = "start" THEN "failed"
  ELSE "played"

\* variant: the desktop notification is also switched off by the sound setting
showDesktopNotificationSoundGated(x) ==
  IF ~x.enableDesktopNotifications \/ ~x.enableSound THEN "skipped"
  ELSE IF x.electronAPI THEN (IF x.electronFails THEN "electronFailed" ELSE "electron")
  ELSE IF ~x.supported THEN "unsupported"
  ELSE IF x.permission = "default" /\ x.requestResult # "granted" THEN "denied"
  ELSE IF x.permission = "denied" THEN "denied"
  ELSE IF x.ctorFails THEN "browserFailed"
  ELSE "browser"

\* lines 99-190
showDesktopNotification(x) ==
  IF ~x.enableDesktopNotifications THEN "skipped"
  ELSE IF x.electronAPI THEN (IF x.electronFails THEN "electronFailed" ELSE "electron")
  ELSE IF ~x.supported THEN "unsupported"
  ELSE IF x.permission = "default" /\ x.requestResult # "granted" THEN "denied"
  ELSE IF x.permission = "denied" THEN "denied"
  ELSE IF x.ctorFails THEN "browserFailed"
  ELSE "browser"

\* the outcomes in which a desktop notification was handed to the platform
DesktopDispatched == {"electron", "electronFailed", "browser", "browserFailed"}

InitNotify ==
  /\ AppInit(NoCriteria)
  /\ scen = ScenIdle
  /\ \E x \in NotifyInputs : pure = [PureIdle EXCEPT !.op = "notifyIn", !.in = x]

\* notify, line 202: await this.playNotificationSound()
NotifySound ==
  /\ pure.op = "notifyIn"
  /\ pure' = [pure EXCEPT !.op = "notifySound", !.out = playNotificationSound(pure.in)]
  /\ UNCHANGED <<appVars, scen>>

\* notify, line 205: await this.showDesktopNotification(data)
NotifyDesktop ==
  /\ pure.op = "notifySound"
  /\ pure' = [pure EXCEPT !.op = "notifyOut", !.out2 = showDesktopNotification(pure.in)]
  /\ UNCHANGED <<appVars, scen>>

NextNotify == NotifySound \/ NotifyDesktop

SpecNotify == InitNotify /\ [][NextNotify]_vars

(***************************************************************************)
(* GitHubService.getNotifications: the request that precedes the loop and  *)
(* the page loop, against an inbox of 0..MaxInbox threads that the server  *)
(* cuts into pages of per_page. pure.in is the inbox, pure.in2 the pages   *)
(* requested so far (0 for the request without a page parameter),          *)
(* pure.out is allNotifications and pure.out2 holds currentPage.           *)
(***************************************************************************)
per_page == 100
maxPages == 3

Min(a, b) == IF a < b THEN a ELSE b

\* what the server answers for page p
PageData(inbox, p) == SubSeq(inbox, (p - 1) * per_page + 1, Min(p * per_page, Len(inbox)))

currentPage == pure.out2[1]

InitPages ==
  /\ AppInit(NoCriteria)
  /\ scen = ScenIdle
  /\ \E n \in 0..MaxInbox :
       pure = [PureIdle EXCEPT !.op = "pageStart", !.in = [k \in 1..n |-> k]]

\* lines 295-310: the first request, whose body is not read
PageFirstRequest ==
  /\ pure.op = "pageStart"
  /\ \/ pure' = [pure EXCEPT !.op = "pageLoop", !.in2 = <<0>>, !.out2 = <<1>>]
     \/ pure' = [pure EXCEPT !.op = "pageError", !.in2 = <<0>>]
  /\ UNCHANGED <<appVars, scen>>

\* variant: the loop stops one page before the cap
PageRequestShortCap ==
  /\ pure.op = "pageLoop"
  /\ IF currentPage < maxPages
     THEN LET pageData == PageData(pure.in, currentPage)
              requested == Append(pure.in2, currentPage)
          IN \/ pure' = [pure EXCEPT !.op = "pageError", !.in2 = requested]
             \/ pure' = [pure EXCEPT !.in2 = requested, !.out = @ \o pageData,
                                     !.op = IF Len(pageData) < per_page THEN "pageDone" ELSE @,
                                     !.out2 = IF Len(pageData) < per_page THEN @
                                              ELSE <<currentPage + 1>>]
     ELSE pure' = [pure EXCEPT !.op = "pageDone"]
  /\ UNCHANGED <<appVars, scen>>

\* lines 312-351: the loop test and one iteration
PageRequest ==
  /\ pure.op = "pageLoop"
  /\ IF currentPage <= maxPages
     THEN LET pageData == PageData(pure.in, currentPage)
              requested == Append(pure.in2, currentPage)
          IN \/ pure' = [pure EXCEPT !.op = "pageError", !.in2 = requested]
             \/ pure' = [pure EXCEPT !.in2 = requested, !.out = @ \o pageData,
                                     !.op = IF Len(pageData) < per_page THEN "pageDone" ELSE @,
                                     !.out2 = IF Len(pageData) < per_page THEN @
                                              ELSE <<currentPage + 1>>]
     ELSE pure' = [pure EXCEPT !.op = "pageDone"]
  /\ UNCHANGED <<appVars, scen>>

NextPages == PageFirstRequest \/ PageRequest

\* an awaited request is eventually answered or fails
SpecPages == InitPages /\ [][NextPages]_vars /\ WF_vars(NextPages)

(***************************************************************************)
(* SetupWizard. pure holds the component's state: currentStep, pat,        *)
(* isSaving, patValidation, the validateToken calls that have not resolved *)
(* yet (validating: how many per token text) and the token handed to       *)
(* savePAT. Token texts are told apart by what decides the code's          *)
(* branches: shorter than 40 characters or not, and what GitHub answers.   *)
(***************************************************************************)
TokenTexts == {"", "short", "good", "noaccess", "bad"}
LongTokens == {"good", "noaccess", "bad"}

\* the results validateToken can resolve with for a token text
validateToken(t) ==
  CASE t = "good" -> {[valid |-> TRUE, hasNotificationsAccess |-> "true"],
                      [valid |-> FALSE, hasNotificationsAccess |-> "undefined"]}
    [] t = "noaccess" -> {[valid |-> FALSE, hasNotificationsAccess |-> "false"],
                          [valid |-> FALSE, hasNotificationsAccess |-> "undefined"]}
    [] OTHER -> {[valid |-> FALSE, hasNotificationsAccess |-> "undefined"]}

NotValidated(checking) ==
  [isValid |-> FALSE, isChecking |-> checking, hasNotificationsAccess |-> "undefined"]

InitWizard ==
  /\ AppInit(NoCriteria)
  /\ scen = ScenIdle
  /\ pure = [op |-> "wizard", currentStep |-> "welcome", pat |-> "", isSaving |-> FALSE,
             patValidation |-> NotValidated(FALSE),
             validating |-> [t \in LongTokens |-> 0], savedPAT |-> "none", saving |-> "none"]

canProceed ==
  CASE pure.currentStep = "pat" ->
         /\ pure.patValidation.isValid
         /\ pure.patValidation.hasNotificationsAccess = "true"
         /\ ~pure.patValidation.isChecking
         /\ ~pure.isSaving
    [] OTHER -> TRUE

Pending == pure.validating["good"] + pure.validating["noaccess"] + pure.validating["bad"]

handlePatChange(newPat) ==
  /\ pure.op = "wizard"
  /\ pure.currentStep = "pat"
  /\ newPat # pure.pat
  /\ IF newPat \notin LongTokens
     THEN pure' = [pure EXCEPT !.pat = newPat, !.patValidation = NotValidated(FALSE)]
     ELSE /\ Pending < MaxPending
          /\ pure' = [pure EXCEPT !.pat = newPat, !.patValidation = NotValidated(TRUE),
                                  !.validating[newPat] = @ + 1]
  /\ UNCHANGED <<appVars, scen>>

\* the .then of handlePatChange, for the token the call was made with
ValidationResolves(t) ==
  /\ pure.op = "wizard"
  /\ pure.validating[t] > 0
  /\ \E result \in validateToken(t) :
       pure' = [pure EXCEPT !.validating[t] = @ - 1,
                            !.patValidation = [isValid |-> result.valid, isChecking |-> FALSE,
                                               hasNotificationsAccess |-> result.hasNotificationsAccess]]
  /\ UNCHANGED <<appVars, scen>>

handleNext ==
  /\ pure.op = "wizard"
  /\ canProceed
  /\ CASE pure.currentStep = "welcome" -> pure' = [pure EXCEPT !.currentStep = "pat"]
       [] pure.currentStep = "pat" -> pure' = [pure EXCEPT !.isSaving = TRUE, !.saving = pure.pat]
       [] pure.currentStep = "filter" -> pure' = [pure EXCEPT !.currentStep = "completion"]
       [] OTHER -> pure' = [pure EXCEPT !.op = "wizardDone"]
  /\ UNCHANGED <<appVars, scen>>

\* savePAT resolves (with true or false) or rejects
SavePATDone(success) ==
  /\ pure.op = "wizard"
  /\ pure.isSaving
  /\ pure' = [pure EXCEPT !.isSaving = FALSE, !.saving = "none",
                          !.savedPAT = IF success THEN pure.saving ELSE @,
                          !.currentStep = IF success THEN "filter" ELSE @]
  /\ UNCHANGED <<appVars, scen>>

handleBack ==
  /\ pure.op = "wizard"
  /\ pure.currentStep # "welcome"
  /\ ~pure.isSaving
  /\ pure' = [pure EXCEPT !.currentStep = CASE @ = "pat" -> "welcome"
                                            [] @ = "filter" -> "pat"
                                            [] OTHER -> "filter"]
  /\ UNCHANGED <<appVars, scen>>

NextWizard ==
  \/ \E newPat \in TokenTexts : handlePatChange(newPat)
  \/ \E t \in LongTokens : ValidationResolves(t)
  \/ handleNext
  \/ \E success \in BOOLEAN : SavePATDone(success)
  \/ handleBack

SpecWizard == InitWizard /\ [][NextWizard]_vars

(***************************************************************************)
(* useBackgroundRefresh as App calls it, with time counted in minutes.     *)
(* pure holds refreshInterval and enabled (the hook's arguments),          *)
(* intervalRef (the running setInterval timer, if any, and the minutes     *)
(* elapsed of its current period), busy (a background loadNotifications    *)
(* is awaiting) and since, the minutes passed since the last background    *)
(* refresh was triggered or the timer settings last changed.               *)
(***************************************************************************)
DefaultInterval == 5
IntervalChoices == {1, DefaultInterval}
SinceCap == DefaultInterval + 1

NoTimer == [set |-> FALSE, intervalMs |-> 0, elapsed |-> 0]

\* lines 17-41, on a hook whose previous timer the effect cleanup has cleared
startRefresh(p) ==
  IF ~p.enabled \/ p.refreshInterval <= 0
  THEN p.intervalRef
  ELSE [set |-> TRUE, intervalMs |-> p.refreshInterval, elapsed |-> 0]

\* lines 63-75 after a render of App: onRefresh is a new arrow function on
\* every render (App.tsx line 50), so startRefresh is a new callback and the
\* effect's dependencies have changed: the cleanup (stopRefresh) runs, then
\* the effect body.
RenderApp(p) ==
  LET cleaned == [p EXCEPT !.intervalRef = NoTimer]
  IN IF p.enabled /\ p.refreshInterval > 0
     THEN [cleaned EXCEPT !.intervalRef = startRefresh(cleaned)]
     ELSE cleaned

InitTimer ==
  /\ AppInit(NoCriteria)
  /\ scen = ScenIdle
  /\ pure = [op |-> "timer", last |-> "mount", refreshInterval |-> DefaultInterval,
             enabled |-> FALSE, intervalRef |-> NoTimer, busy |-> FALSE, since |-> 0]

\* a minute passes without the timer being due
TimerMinute ==
  /\ pure.op = "timer"
  /\ pure.intervalRef.set => pure.intervalRef.elapsed < pure.intervalRef.intervalMs
  /\ pure' = [pure EXCEPT !.last = "minute",
                          !.since = Min(@ + 1, SinceCap),
                          !.intervalRef.elapsed = IF pure.intervalRef.set THEN @ + 1 ELSE @]
  /\ UNCHANGED <<appVars, scen>>

\* the timer is due: the callback calls onRefresh, whose loadNotifications
\* sets loading, which renders App
TimerFire ==
  /\ pure.op = "timer"
  /\ pure.intervalRef.set
  /\ pure.intervalRef.elapsed = pure.intervalRef.intervalMs
  /\ pure' = RenderApp([pure EXCEPT !.last = "fire", !.since = 0, !.busy = TRUE,
                                    !.intervalRef.elapsed = 0])
  /\ UNCHANGED <<appVars, scen>>

\* the background loadNotifications ends: its state updates render App
BackgroundLoadEnds ==
  /\ pure.op = "timer"
  /\ pure.busy
  /\ pure' = RenderApp([pure EXCEPT !.last = "loadEnd", !.busy = FALSE])
  /\ UNCHANGED <<appVars, scen>>

\* any other state update of App (a mark as read, a manual refresh, ...)
OtherStateUpdate ==
  /\ pure.op = "timer"
  /\ pure' = RenderApp([pure EXCEPT !.last = "render"])
  /\ UNCHANGED <<appVars, scen>>

setRefreshInterval(m) ==
  /\ pure.op = "timer"
  /\ m # pure.refreshInterval
  /\ pure' = RenderApp([pure EXCEPT !.last = "interval", !.refreshInterval = m, !.since = 0])
  /\ UNCHANGED <<appVars, scen>>

\* setupComplete && !!githubService changes
setEnabled(b) ==
  /\ pure.op = "timer"
  /\ b # pure.enabled
  /\ pure' = RenderApp([pure EXCEPT !.last = "enabled", !.enabled = b, !.since = 0])
  /\ UNCHANGED <<appVars, scen>>

NextTimer ==
  \/ TimerMinute
  \/ TimerFire
  \/ BackgroundLoadEnds
  \/ OtherStateUpdate
  \/ \E m \in IntervalChoices : setRefreshInterval(m)
  \/ \E b \in BOOLEAN : setEnabled(b)

SpecTimer == InitTimer /\ [][NextTimer]_vars

(***************************************************************************)
(* SettingsStorage.loadSettings and saveSettings. pure holds the settings  *)
(* file (absent, valid or corrupt), the stack of calls that have not       *)
(* settled yet (innermost last), whether the innermost call is still       *)
(* running towards its first await (phase "call") or a callee has settled  *)
(* and the callers resume one by one (phase "unwind"), the value or        *)
(* rejection the last settled call produced, and the number of             *)
(* writeFileSync calls since the outermost call began. Both functions are  *)
(* async: each runs synchronously up to its await, so nested calls pile up *)
(* on the call stack until the engine refuses a further call (a            *)
(* RangeError, here at StackLimit frames).                                 *)
(***************************************************************************)
InitSettings ==
  /\ AppInit(NoCriteria)
  /\ scen = ScenIdle
  /\ \E f \in {"absent", "valid", "corrupt"} :
       pure = [op |-> "settings", file |-> f, stack |-> <<>>, phase |-> "unwind",
               value |-> "none", writes |-> 0, entry |-> "none", absent |-> FALSE]

Top == pure.stack[Len(pure.stack)]
Pop == SubSeq(pure.stack, 1, Len(pure.stack) - 1)

\* a caller outside the class (an IPC handler of the main process)
SettingsCall(fn) ==
  /\ pure.op = "settings"
  /\ pure.stack = <<>>
  /\ pure' = [pure EXCEPT !.stack = <<fn>>, !.phase = "call", !.value = "none", !.writes = 0,
                          !.entry = fn, !.absent = (pure.file = "absent")]
  /\ UNCHANGED <<appVars, scen>>

\* the file is removed or damaged while no call is running
FileChange(f) ==
  /\ pure.op = "settings"
  /\ pure.stack = <<>>
  /\ f # pure.file
  /\ pure' = [pure EXCEPT !.file = f]
  /\ UNCHANGED <<appVars, scen>>

\* lines 65-90 up to the await: without a file, call saveSettings; the call is
\* refused when the stack is full, and the catch block then returns the
\* defaults or, having no room to run either, makes the promise reject.
\* With a file: read, parse and merge, or the defaults from the catch block.
loadSettings ==
  /\ pure.op = "settings"
  /\ pure.phase = "call"
  /\ pure.stack # <<>>
  /\ Top = "load"
  /\ IF pure.file = "absent"
     THEN IF Len(pure.stack) < StackLimit
          THEN pure' = [pure EXCEPT !.stack = Append(@, "save")]
          ELSE \E v \in {"settings", "rejected"} :
                 pure' = [pure EXCEPT !.stack = Pop, !.phase = "unwind", !.value = v]
     ELSE pure' = [pure EXCEPT !.stack = Pop, !.phase = "unwind", !.value = "settings"]
  /\ UNCHANGED <<appVars, scen>>

\* lines 95-100: saveSettings calls loadSettings first
saveSettings ==
  /\ pure.op = "settings"
  /\ pure.phase = "call"
  /\ pure.stack # <<>>
  /\ Top = "save"
  /\ IF Len(pure.stack) < StackLimit
     THEN pure' = [pure EXCEPT !.stack = Append(@, "load")]
     ELSE \E v \in {"false", "rejected"} :
            pure' = [pure EXCEPT !.stack = Pop, !.phase = "unwind", !.value = v]
  /\ UNCHANGED <<appVars, scen>>

\* lines 72-73 and 85-89: the awaited saveSettings has settled
loadSettingsResumes ==
  /\ pure.op = "settings"
  /\ pure.phase = "unwind"
  /\ pure.stack # <<>>
  /\ Top = "load"
  /\ pure' = [pure EXCEPT !.stack = Pop, !.value = "settings"]
  /\ UNCHANGED <<appVars, scen>>

\* lines 100-121: the awaited loadSettings has settled; merge and write
saveSettingsResumes ==
  /\ pure.op = "settings"
  /\ pure.phase = "unwind"
  /\ pure.stack # <<>>
  /\ Top = "save"
  /\ IF pure.value = "settings"
     THEN \/ pure' = [pure EXCEPT !.stack = Pop, !.value = "true", !.file = "valid",
                                  !.writes = @ + 1]
          \/ pure' = [pure EXCEPT !.stack = Pop, !.value = "false"]
     ELSE pure' = [pure EXCEPT !.stack = Pop, !.value = "false"]
  /\ UNCHANGED <<appVars, scen>>

NextSettings ==
  \/ \E fn \in {"load", "save"} : SettingsCall(fn)
  \/ \E f \in {"absent", "corrupt"} : FileChange(f)
  \/ loadSettings
  \/ saveSettings
  \/ loadSettingsResumes
  \/ saveSettingsResumes

SpecSettings == InitSettings /\ [][NextSettings]_vars

(***************************************************************************)
(* Properties                                                              *)
(***************************************************************************)

\* C1: once a single mark-as-read of id has succeeded, a background refresh
\* started afterwards whose fetched set still holds id does not display id
\* (as long as no manual refresh has cleared the local tracking).
C1_HiddenAfterSingleMark ==
  (ev.op = "classified" /\ ~ev.manual)
    => (ev.hidden \cap ev.ids \cap DisplayIds(notifications) = {})

\* C2: a filtered bulk mark-as-read attempts every visible id, counts the
\* successes, reports the number of visible ids, and adds to the locally
\* marked-read set exactly the ids whose remote update succeeded.
C2_BulkAddsOnlySucceeded ==
  ev.op = "bulkDone"
    => /\ ev.ok \cup ev.failed = ev.ids
       /\ ev.n = Cardinality(ev.ok)
       /\ ev.total = Cardinality(ev.ids)
       /\ markedAsReadIds = ev.before \cup ev.ok

\* C3: the first reconciliation (no known ids, no last-seen timestamp,
\* previous count 0) raises no alert for any non-empty fetched set.
C3_FirstLoadNoAlert ==
  (ev.op = "classified" /\ ev.first /\ ev.ids # {})
    => (ev.cls = NoAlert /\ ev.fin)

C3_Witness ==
  /\ ev.op = "classified"
  /\ ev.first
  /\ Cardinality(ev.ids) >= 2
  /\ ev.cls = NoAlert

\* C4: a cycle that fetches both an unknown id and a known id with a newer
\* updated_at is classified New, and the alert counts and lists exactly the
\* records with unknown ids.
C4_NewByIdWins ==
  (ev.op = "classified" /\ ev.both)
    => /\ ev.cls.kind = "new"
       /\ ev.cls.n = Cardinality(ev.fresh)
       /\ Range(ev.cls.items) = ev.fresh
       /\ Len(ev.cls.items) = Cardinality(ev.fresh)

C4_Witness ==
  /\ ev.op = "classified"
  /\ ev.both
  /\ ev.cls.kind = "new"
  /\ ev.fresh # ev.ids

\* the only fetch resolved at stage 3 is that of the third refresh
ThirdReconcile == scen.stage = 3 /\ ev.op = "classified"

C6_KnownIdsAreFetchedIds ==
  ev.fin => previousIdsRef = ev.ids

C6_Witness ==
  /\ ev.fin
  /\ ev.stale
  /\ ev.ids # {}
  /\ previousIdsRef = ev.ids

\* C7: with all four criteria sets empty, filterNotifications returns its
\* input, same records in the same order.
C7_EmptyCriteriaIdentity ==
  (pure.op = "filterOut" /\ NoFiltersApplied(pure.crit)) => pure.out = pure.in

C7_Witness ==
  /\ pure.op = "filterOut"
  /\ NoFiltersApplied(pure.crit)
  /\ Len(pure.in) >= 2
  /\ pure.in[1].repository = NoRepo
  /\ pure.out = pure.in

RepoIsSelected(n, repos) == \E s \in repos : Trim(s) = n.repository.id

C9_GroupingOrderIndependent ==
  pure.op = "groupOut" => pure.out = pure.out2

\* C10: at most one refresh cycle is in flight at any time.
C10_OneRefreshInFlight == Len(loads) <= 1

AlertsPending(ls) == Cardinality({i \in DOMAIN ls : ls[i].pc = "alert"})

\* C11: a refresh whose fetch fails leaves the known-id set, the last-seen
\* updatedAt and the previous visible count as they were, and raises no alert.
C11_FetchFailureKeepsReconcileState ==
  [][ev'.op = "fetchFail"
       => /\ previousIdsRef' = previousIdsRef
          /\ lastSeenUpdatedAtRef' = lastSeenUpdatedAtRef
          /\ previousNotificationCount' = previousNotificationCount
          /\ ev'.cls = NoAlert
          /\ AlertsPending(loads') = AlertsPending(loads)]_vars

C11_Witness ==
  /\ ev.op = "fetchFail"
  /\ error
  /\ previousIdsRef # {}
  /\ lastSeenUpdatedAtRef # 0
  /\ previousNotificationCount > 0
  /\ \E i \in Ids : feed[i] # 0 /\ i \notin previousIdsRef

\* C12: only the start of a manual refresh (handleRefresh) removes ids from
\* the locally-marked-read set; every other step (background, save-filters
\* and Try Again refreshes, fetch completions and failures, single marks,
\* mark-all) keeps every id that is in it.
C12_OnlyManualRefreshClears ==
  [][(ev'.op = "start" /\ ev'.kind = "manual") \/ markedAsReadIds \subseteq markedAsReadIds']_vars

C12_Witness ==
  /\ markedAsReadIds # {}
  /\ ev.op = "start"
  /\ ev.kind \in {"bg", "save", "retry"}

\* C13: a record without a repository is never in the output of
\* filterNotifications, whatever the criteria, the all-empty criteria included.
C13_NoRepositoryNeverKept ==
  pure.op = "filterOut" => \A k \in DOMAIN pure.out : pure.out[k].repository # NoRepo

\* C14: when the PATCH of a single mark-as-read fails, the display groups, the
\* unread count and the locally-marked-read set stay as they were, and the
\* handler issues no further remote call (none for that id, none for another
\* id, no mark-all).
C14_SingleMarkFailureKeepsState ==
  [][ev'.op = "markFail"
       => /\ notifications' = notifications
          /\ unreadCount' = unreadCount
          /\ markedAsReadIds' = markedAsReadIds
          /\ ev'.id \in marking
          /\ marking' = marking \ {ev'.id}
          /\ bulk' = bulk]_vars

C14_Witness ==
  /\ ev.op = "markFail"
  /\ ev.id \in DisplayIds(notifications)
  /\ unreadCount = CountItems(notifications)
  /\ unreadCount >= 2
  /\ marking = {}

\* C15: with no filter selected, mark-all issues one PUT and no PATCH; while
\* the PUT is pending the handler leaves the display and the unread count
\* alone; when it resolves both are cleared; when it throws both stay as they
\* were.
C15_UnfilteredMarkAll ==
  [][/\ ev'.op = "allStart"
          => /\ NoFiltersApplied(selected)
             /\ bulk'.puts = 1
             /\ bulk'.pc = "all"
             /\ notifications' = notifications
             /\ unreadCount' = unreadCount
     /\ ev'.op = "allOk"
          => /\ ev'.puts = 1
             /\ notifications' = <<>>
             /\ unreadCount' = 0
             /\ bulk' = BulkIdle
     /\ ev'.op = "allFail"
          => /\ ev'.puts = 1
             /\ notifications' = notifications
             /\ unreadCount' = unreadCount
             /\ bulk' = BulkIdle
     /\ (bulk.pc = "all" /\ bulk'.pc = "all" /\ loads' = loads)
          => (notifications' = notifications /\ unreadCount' = unreadCount)]_vars

C15_Witness ==
  /\ ev.op = "allFail"
  /\ ev.puts = 1
  /\ ev.total >= 2
  /\ unreadCount = ev.total
  /\ DisplayIds(notifications) = ev.shown
  /\ bulk = BulkIdle

\* C16: with a filter selected, mark-all walks exactly the ids on display when
\* it is invoked, issues a PATCH for no other id, never issues the account-wide
\* PUT, and adds no id to the locally-marked-read set that was not displayed.
C16_FilteredMarkAllOnlyDisplayed ==
  [][/\ ev'.op \in {"bulkStart", "bulkStep", "bulkDone"}
          => /\ bulk.puts = 0
             /\ bulk'.puts = 0
             /\ ev'.puts = 0
     /\ ev'.op = "bulkStart"
          => /\ ~NoFiltersApplied(selected)
             /\ Range(bulk'.ids) = DisplayIds(notifications)
             /\ bulk'.ok = {}
             /\ bulk'.failed = {}
     /\ ev'.op = "bulkStep"
          => /\ ev'.id \in bulk.shown
             /\ bulk'.ok \cup bulk'.failed = bulk.ok \cup bulk.failed \cup {ev'.id}
     /\ ev'.op = "bulkDone"
          => /\ ev'.ok \cup ev'.failed \subseteq ev'.shown
             /\ markedAsReadIds' \ markedAsReadIds \subseteq ev'.shown]_vars

C16_Witness ==
  /\ ev.op = "bulkDone"
  /\ ev.ok # {}
  /\ ev.ok \cup ev.failed = ev.shown
  /\ selected = IssuesOnly
  /\ \E i \in Ids : feed[i] # 0 /\ i \notin ev.shown /\ ~FilterMatches(Thread(i, feed[i]), selected)

\* C17: a record with a repository is kept by filterNotifications if and only
\* if it passes the repository/organization dimension (selected repositories
\* when any is selected, otherwise selected owners by id or login when any is
\* selected, otherwise everything), the subject-type dimension and the reason
\* dimension, an empty selection being passed by every record.
C17_KeptIffAllDimensionsPass ==
  pure.op = "filterOut"
    => \A k \in DOMAIN pure.in :
         LET n == pure.in[k]
             c == pure.crit
             repoDim == IF c.repos # {} THEN RepoIsSelected(n, c.repos)
                        ELSE IF c.orgs # {}
                        THEN n.repository.owner.id \in c.orgs \/ n.repository.owner.login \in c.orgs
                        ELSE TRUE
             typeDim == c.types # {} => n.subject_type \in c.types
             reasonDim == c.reasons # {} => n.reason \in c.reasons
         IN n.repository # NoRepo
              => ((\E j \in DOMAIN pure.out : pure.out[j] = n)
                    <=> (repoDim /\ typeDim /\ reasonDim))

C17_Witness ==
  /\ pure.op = "filterOut"
  /\ pure.crit = [orgs |-> {"b"}, repos |-> {}, types |-> {"Issue"}, reasons |-> {"mention"}]
  /\ Len(pure.in) = 2
  /\ pure.in[1].repository = RepoB
  /\ pure.in[2].repository = RepoB
  /\ pure.in[1].subject_type = "Issue"
  /\ pure.in[2].subject_type = "Issue"
  /\ pure.in[1].reason = "subscribed"
  /\ pure.in[2].reason = "mention"
  /\ pure.out = <<pure.in[2]>>

\* C18: when the fetches of two refreshes resolve one right after the other,
\* with nothing happening in between, and both return the same set, the
\* later one raises no alert.
C18_NoRepeatedAlert ==
  [][(ev.op = "classified" /\ ev'.op = "classified" /\ ev'.ids = ev.ids /\ feed' = feed)
       => ev'.cls = NoAlert]_vars

\* C19: in every refresh after the first completed one, a fetched id that the
\* preceding completed refresh did not fetch raises an alert that lists it,
\* whether the preceding fetched set was empty or not.
C19_NoMissedNew ==
  (ev.op = "classified" /\ CompletedBefore >= 1 /\ ev.fresh # {})
    => (ev.cls.kind # "none" /\ ev.fresh \subseteq Range(ev.cls.items))

\* C20: when notify has run, the sound was attempted iff enableSound is set and
\* the sound is loaded, and was played iff furthermore nothing in the playback
\* threw; with the Electron bridge present the desktop notification was
\* dispatched iff enableDesktopNotifications is set; neither outcome depends on
\* the other setting or on how the other step went.
C20_IndependentGating ==
  pure.op = "notifyOut"
    => LET x == pure.in
           soundReady == x.enableSound /\ x.audio = "ready"
           soundThrows == \/ (x.suspended /\ x.soundFails = "resume")
                          \/ x.soundFails = "start"
       IN /\ (pure.out # "skipped") <=> soundReady
          /\ (pure.out = "played") <=> (soundReady /\ ~soundThrows)
          /\ x.electronAPI
               => /\ (pure.out2 \in DesktopDispatched) <=> x.enableDesktopNotifications
                  /\ (pure.out2 = "skipped") <=> ~x.enableDesktopNotifications

C20_Witness ==
  /\ pure.op = "notifyOut"
  /\ pure.in.enableSound
  /\ pure.in.enableDesktopNotifications
  /\ pure.in.electronAPI
  /\ pure.out = "failed"
  /\ pure.out2 = "electron"

\* C21: the step that follows a fetch answered with HTTP 401 is never the
\* start of another refresh (the token is still the same one: the model has
\* no step that supplies a new token).
C21_NoFetchAfter401 ==
  [][(ev.op = "fetchFail" /\ ev.status = 401) => ev'.op # "start"]_vars

\* the number of the page at which the loop is to stop for this inbox
LastPage(inbox) ==
  LET short == {p \in 1..maxPages : Len(PageData(inbox, p)) < per_page}
  IN IF short = {} THEN maxPages ELSE CHOOSE p \in short : \A q \in short : p <= q

\* C22: getNotifications always comes to an end; it never requests a page
\* beyond the cap; when it returns, it has requested pages 1..k in order, k
\* being the first page shorter than per_page or else the cap, and returns
\* the first k pages of the inbox in order, also when the inbox goes on
\* beyond the cap.
C22_PaginationStopsAndConcatenates ==
  /\ <>(pure.op \in {"pageDone", "pageError"})
  /\ [](/\ \A i \in DOMAIN pure.in2 : pure.in2[i] <= maxPages
        /\ Len(pure.in2) <= maxPages + 1
        /\ pure.op = "pageDone"
             => LET k == LastPage(pure.in)
                IN /\ pure.in2 = <<0>> \o [p \in 1..k |-> p]
                   /\ pure.out = SubSeq(pure.in, 1, Min(k * per_page, Len(pure.in))))

C22_Witness ==
  /\ pure.op = "pageDone"
  /\ Len(pure.in) > maxPages * per_page
  /\ Len(pure.out) = maxPages * per_page
  /\ pure.in2 = <<0, 1, 2, 3>>

\* C23: whenever Next is enabled on the token step, the text in the token
\* field is a token that validates as valid with notifications access.
C23_NextOnlyForValidatedToken ==
  (pure.op = "wizard" /\ pure.currentStep = "pat" /\ canProceed) => pure.pat = "good"

\* C24: while background refresh is enabled with a positive interval, never
\* more than one interval passes without a background refresh being
\* triggered, counted from the previous one (or from the moment the interval
\* or the enabled flag last changed), whatever else re-renders App meanwhile.
C24_RefreshOncePerInterval ==
  (pure.op = "timer" /\ pure.enabled /\ pure.refreshInterval > 0)
    => pure.since <= pure.refreshInterval

\* C25: a refresh that completes sets lastSeenUpdatedAtRef to the greatest
\* updated_at of the records it fetched, and leaves it as it was when it
\* fetched none. (Stated on the cycles that complete in the step of their
\* fetch; a cycle that raises an alert stores the value of its fetch later.)
C25_LastSeenMaxOrUnchanged ==
  [][(ev'.op = "classified" /\ ev'.fin)
       => lastSeenUpdatedAtRef' =
            IF ev'.ids = {} THEN lastSeenUpdatedAtRef
            ELSE CHOOSE t \in {feed[id] : id \in ev'.ids} : \A id \in ev'.ids : feed[id] <= t]_vars

\* C26: when the fetch of a manual refresh resolves, every record it fetched
\* (all of which passed the filter) is in the display groups it produces.
C26_ManualRefreshShowsAllFetched ==
  (ev.op = "classified" /\ ev.manual) => ev.ids \subseteq DisplayIds(notifications)

\* C27: when a refresh raises an alert, the inbox holds a thread that it did
\* not hold when the preceding successful fetch resolved, or a thread with a
\* greater updated_at than it had then.
C27_AlertOnlyOnUpstreamChange ==
  (ev.op = "classified" /\ ev.cls.kind # "none")
    => \E id \in Ids : feed[id] > scen.feedThen[id]

\* the unread items of the display groups
UnreadShown ==
  UNION {{groups.notifications[k].id : k \in {j \in DOMAIN groups.notifications :
                                                groups.notifications[j].unread}} :
         groups \in Range(notifications)}

\* C28: whenever no refresh, single mark or mark-all is in flight, the unread
\* count shown is the number of unread items in the display groups.
C28_CountMatchesUnreadShown ==
  Quiet => unreadCount = Cardinality(UnreadShown)

\* C29: whenever no refresh, single mark or mark-all is in flight, no
\* displayed id is in the locally-marked-read set.
C29_NoDisplayedIdIsMarked ==
  Quiet => DisplayIds(notifications) \cap markedAsReadIds = {}

\* C30: a loadSettings call that finds no settings file has at most one
\* saveSettings call pending at any time and writes the file at most once.
C30_LoadWritesDefaultsOnce ==
  (pure.op = "settings" /\ pure.entry = "load" /\ pure.absent)
    => /\ Cardinality({i \in DOMAIN pure.stack : pure.stack[i] = "save"}) <= 1
       /\ pure.writes <= 1

====
